---- MODULE Spec2Model ----
(***************************************************************************)
(* Model of the evaluation harness of the document classifier              *)
(* (src/evaluation.py): ClassificationEvaluator and GroundTruthManager,    *)
(* and of the handlers of its HTTP service (src/main.py) with the          *)
(* classifier they construct (src/doc_classifier.py).                      *)
(*                                                                         *)
(* Floating-point values are modelled as exact rationals <<num, den>> in   *)
(* lowest terms.  An optional value (Python None or a value) is modelled   *)
(* as a sequence of length 0 or 1.  A label is modelled as the sequence of  *)
(* the pieces of its text, so that building a pattern key is a             *)
(* concatenation.  The scikit-learn functions called by calculate_metrics  *)
(* are modelled at their call sites.                                       *)
(***************************************************************************)
EXTENDS Integers, Sequences, FiniteSets, TLC

VARIABLES
    categories,         \* ClassificationEvaluator.categories (the roster)
    predictions,        \* ClassificationEvaluator.predictions
    ground_truth,       \* ClassificationEvaluator.ground_truth
    processing_times,   \* ClassificationEvaluator.processing_times
    confidence_scores,  \* ClassificationEvaluator.confidence_scores
    report_file,        \* the file save_evaluation_report writes
    gt_file,            \* the ground-truth file (ground_truth.json)
    temp_files,         \* the temporary files of the HTTP service on disk
    managers,           \* the GroundTruthManager of each session
    result,             \* what the last call gave its caller
    latency_args,       \* history: the processing_time argument of each
                        \* add_prediction call, in call order
    metrics_repeated    \* history: the last call was calculate_metrics and
                        \* so was the call before it

vars == <<categories, predictions, ground_truth, processing_times,
          confidence_scores, report_file, gt_file, temp_files, managers,
          result, latency_args, metrics_repeated>>

gtVars == <<gt_file, managers>>

evalVars == <<categories, predictions, ground_truth, processing_times,
              confidence_scores>>

historyVars == <<latency_args, metrics_repeated>>

----------------------------------------------------------------------------
(* Bounds and input sets *)

MaxRecords == 2

\* a label is the sequence of the pieces of its text
Labels == {<<"A">>, <<"B">>, <<"C">>}

Rosters == {<<<<"A">>, <<"B">>>>, <<<<"B">>, <<"C">>, <<"A">>>>}

None == <<>>

Some(v) == <<v>>

\* processing_time arguments of a session whose metrics are examined
TimeInputs == {None, Some(2)}

\* processing_time arguments of a session whose latencies are examined:
\* omitted, 0 seconds, 2 seconds
LatencyInputs == {None, Some(0), Some(2)}

ConfidenceInputs == {None}

\* <<predicted, actual, processing_time>> inputs of a session that writes reports
ReportInputs ==
    {<<<<"A">>, <<"A">>, None>>, <<<<"C">>, <<"A">>, Some(2)>>,
     <<<<"A">>, <<"C">>, None>>}

MaxReportRecords == 2

\* sessions that open the ground-truth file, and what they add to it
Sessions == {"s1", "s2"}

DocIds == {"d1", "d2"}

TrueCategories == {"A", "B"}

\* document_info arguments: None, a dict json can write, a dict holding a
\* value json cannot write (a set, a datetime, ...)
InfoInputs == {None, Some("info"), Some("unserializable")}

GTTimestamps == {"t1"}

\* the I/O errors a ground-truth write is checked against: none, open() fails,
\* the disk fills before the first chunk or inside the second entry
GTFaultInputs ==
    {[at |-> "none", after |-> 0], [at |-> "open", after |-> 0],
     [at |-> "write", after |-> 0], [at |-> "write", after |-> 5]}

\* two successive readings of datetime.now(): equal, or the second later
ReportClock == {<<"t1", "t1">>, <<"t1", "t2">>}

Timestamps == {"t1", "t2"}

\* sorted_patterns[:10] and errors[:20] in analyze_errors
TopPatterns == 10

DetailedErrorsCap == 20

----------------------------------------------------------------------------
(* Exact rationals *)

RECURSIVE GCD(_, _)
GCD(a, b) == IF b = 0 THEN a ELSE GCD(b, a % b)

Frac(n, d) == LET g == GCD(n, d) IN <<n \div g, d \div g>>

Zero == <<0, 1>>

RAdd(x, y) == Frac(x[1] * y[2] + y[1] * x[2], x[2] * y[2])

RMul(x, y) == Frac(x[1] * y[1], x[2] * y[2])

\* x / y with sklearn's zero_division=0 policy: 0 when the denominator is 0
RDiv0(x, y) == IF y[1] = 0 THEN Zero ELSE Frac(x[1] * y[2], x[2] * y[1])

RInt(n) == <<n, 1>>

RECURSIVE RSum(_)
RSum(s) == IF s = <<>> THEN Zero ELSE RAdd(Head(s), RSum(Tail(s)))

----------------------------------------------------------------------------
(* Sequence helpers *)

Range(s) == {s[i] : i \in DOMAIN s}

\* mutant of Truthy: the test is "is not None", so 0 counts as given
TruthyNotNone(opt) == opt # None

\* Python truthiness of an optional number: None and 0 are falsy
Truthy(opt) == opt # None /\ opt[1] # 0

\* remove the element at index i
RemoveAt(s, i) == SubSeq(s, 1, i - 1) \o SubSeq(s, i + 1, Len(s))

\* ascending sort of a sequence of numbers (np.median, np.percentile sort first)
RECURSIVE SortNums(_)
SortNums(s) ==
    IF s = <<>> THEN <<>>
    ELSE LET i == CHOOSE k \in DOMAIN s : \A j \in DOMAIN s : s[k] <= s[j]
         IN <<s[i]>> \o SortNums(RemoveAt(s, i))

RECURSIVE SumNums(_)
SumNums(s) == IF s = <<>> THEN 0 ELSE Head(s) + SumNums(Tail(s))

\* sum of the rationals f[x] over the finite domain of f
RECURSIVE RSumOver(_)
RSumOver(f) ==
    IF DOMAIN f = {} THEN Zero
    ELSE LET x == CHOOSE y \in DOMAIN f : TRUE
         IN RAdd(f[x], RSumOver([y \in DOMAIN f \ {x} |-> f[y]]))

----------------------------------------------------------------------------
(* scikit-learn metrics as called by calculate_metrics *)

TruePositives(truth, preds, c) ==
    Cardinality({i \in DOMAIN truth : truth[i] = c /\ preds[i] = c})

PredictedCount(preds, c) == Cardinality({i \in DOMAIN preds : preds[i] = c})

Support(truth, c) == Cardinality({i \in DOMAIN truth : truth[i] = c})

\* check_consistent_length, which every scikit-learn metric runs first: it
\* raises ValueError when y_true and y_pred differ in length
InconsistentLength(truth, preds) == Len(truth) # Len(preds)

\* accuracy_score(y_true, y_pred)
accuracy_score(truth, preds) ==
    Frac(Cardinality({i \in DOMAIN truth : truth[i] = preds[i]}), Len(truth))

Precision(truth, preds, c) ==
    RDiv0(RInt(TruePositives(truth, preds, c)), RInt(PredictedCount(preds, c)))

Recall(truth, preds, c) ==
    RDiv0(RInt(TruePositives(truth, preds, c)), RInt(Support(truth, c)))

\* harmonic mean of precision and recall, 0 when both are 0
F1(truth, preds, c) ==
    LET p == Precision(truth, preds, c)
        r == Recall(truth, preds, c)
    IN RDiv0(RMul(RInt(2), RMul(p, r)), RAdd(p, r))

\* one row of precision_recall_fscore_support(..., average=None, zero_division=0)
PerClassRow(truth, preds, c) ==
    [precision |-> Precision(truth, preds, c),
     recall    |-> Recall(truth, preds, c),
     f1_score  |-> F1(truth, preds, c),
     support   |-> Support(truth, c)]

\* precision_recall_fscore_support(..., labels=self.categories, average=None):
\* one row per roster category, in roster order
PerClassMetrics(truth, preds, cats) ==
    [i \in DOMAIN cats |-> PerClassRow(truth, preds, cats[i])]

\* with no labels argument sklearn uses the labels that occur in y_true or y_pred
PresentLabels(truth, preds) == Range(truth) \cup Range(preds)

\* the label set the macro average is taken over
MacroLabels(truth, preds, cats) == PresentLabels(truth, preds)

\* precision_recall_fscore_support(..., average='macro', zero_division=0)
MacroMetrics(truth, preds, cats) ==
    LET L == MacroLabels(truth, preds, cats)
        n == RInt(Cardinality(L))
    IN [precision |-> RDiv0(RSumOver([c \in L |-> Precision(truth, preds, c)]), n),
        recall    |-> RDiv0(RSumOver([c \in L |-> Recall(truth, preds, c)]), n),
        f1_score  |-> RDiv0(RSumOver([c \in L |-> F1(truth, preds, c)]), n)]

\* precision_recall_fscore_support(..., average='weighted', zero_division=0)
WeightedMetrics(truth, preds) ==
    LET L == PresentLabels(truth, preds)
        w(c) == RInt(Support(truth, c))
        n == RInt(Len(truth))
    IN [precision |-> RDiv0(RSumOver([c \in L |-> RMul(w(c), Precision(truth, preds, c))]), n),
        recall    |-> RDiv0(RSumOver([c \in L |-> RMul(w(c), Recall(truth, preds, c))]), n),
        f1_score  |-> RDiv0(RSumOver([c \in L |-> RMul(w(c), F1(truth, preds, c))]), n)]

\* confusion_matrix(y_true, y_pred, labels=...) raises ValueError when no
\* label of labels occurs in y_true (or labels is empty)
ConfusionMatrixRaises(truth, cats) ==
    cats = <<>> \/ Range(truth) \cap Range(cats) = {}

\* confusion_matrix cell: rows are actual, columns predicted, in roster order;
\* a record whose actual or predicted label is not in labels is counted nowhere
ConfusionCell(truth, preds, actual, predicted) ==
    Cardinality({k \in DOMAIN truth : truth[k] = actual /\ preds[k] = predicted})

confusion_matrix(truth, preds, cats) ==
    [i \in DOMAIN cats |->
        [j \in DOMAIN cats |-> ConfusionCell(truth, preds, cats[i], cats[j])]]

\* np.median of a non-empty sequence
Median(times) ==
    LET s == SortNums(times)
        n == Len(s)
    IN IF n % 2 = 1 THEN RInt(s[(n + 1) \div 2])
       ELSE Frac(s[n \div 2] + s[n \div 2 + 1], 2)

PerformanceMetrics(times) ==
    IF times = <<>> THEN [empty |-> TRUE]
    ELSE LET s == SortNums(times)
         IN [avg_processing_time    |-> Frac(SumNums(times), Len(times)),
             median_processing_time |-> Median(times),
             min_processing_time    |-> s[1],
             max_processing_time    |-> s[Len(s)]]

----------------------------------------------------------------------------
(* ClassificationEvaluator *)

Returned(op, v) == [op |-> op, kind |-> "returned", value |-> v]

Raised(op, e) == [op |-> op, kind |-> "raised", exc |-> e]

\* the dict comprehension {category: {...} for i, category in enumerate(...)}:
\* a later duplicate of a category replaces the earlier row
PerClassDict(truth, preds, cats) ==
    LET rows == PerClassMetrics(truth, preds, cats)
        last(c) == CHOOSE i \in DOMAIN cats :
                      cats[i] = c /\ \A j \in DOMAIN cats : cats[j] = c => j <= i
    IN [c \in Range(cats) |-> rows[last(c)]]

\* mutant of NoPredictions: the guard is missing
NoPredictionsUnchecked(preds, truth) == FALSE

\* the guard of calculate_metrics, analyze_errors and the report renderer
NoPredictions(preds, truth) == preds = <<>> \/ truth = <<>>

\* what calculate_metrics gives its caller
MetricsOutcome(cats, preds, truth, times, ts) ==
    IF NoPredictions(preds, truth)
    THEN Returned("calculate_metrics", [error |-> "No predictions to evaluate"])
    ELSE IF InconsistentLength(truth, preds)
    THEN Raised("calculate_metrics", "ValueError")
    ELSE IF ConfusionMatrixRaises(truth, cats)
    THEN Raised("calculate_metrics", "ValueError")
    ELSE Returned("calculate_metrics",
           [timestamp         |-> ts,
            total_samples     |-> Len(preds),
            accuracy          |-> accuracy_score(truth, preds),
            macro_metrics     |-> MacroMetrics(truth, preds, cats),
            weighted_metrics  |-> WeightedMetrics(truth, preds),
            per_class_metrics |-> PerClassDict(truth, preds, cats),
            confusion_matrix  |-> confusion_matrix(truth, preds, cats),
            performance       |-> PerformanceMetrics(times)])

\* the mismatches analyze_errors collects, in record order; index is 0-based
\* and processing_time is processing_times[i] when that list is long enough
RECURSIVE ErrorsFrom(_, _, _, _)
ErrorsFrom(preds, truth, times, k) ==
    IF k > Len(preds) \/ k > Len(truth) THEN <<>>
    ELSE LET rest == ErrorsFrom(preds, truth, times, k + 1)
         IN IF preds[k] # truth[k]
            THEN <<[index |-> k - 1,
                    predicted |-> preds[k],
                    actual |-> truth[k],
                    processing_time |->
                        IF k - 1 < Len(times) THEN Some(times[k]) ELSE None]>>
                 \o rest
            ELSE rest

\* the text the source puts between the two labels of a pattern: a space,
\* the three characters a-circumflex, dagger, right single quote, a space
Separator == <<" ", "a-circumflex", "dagger", "right-quote", " ">>

\* f"{actual}{separator}{predicted}": the concatenation of the three texts
PatternOf(error) == error.actual \o Separator \o error.predicted

\* mutant of TallyPatterns: a pattern seen again is not counted again
RECURSIVE TallyPatternsUncounted(_, _)
TallyPatternsUncounted(errors, items) ==
    IF errors = <<>> THEN items
    ELSE LET pat == PatternOf(Head(errors))
             at == {i \in DOMAIN items : items[i][1] = pat}
         IN IF at = {}
            THEN TallyPatternsUncounted(Tail(errors), Append(items, <<pat, 1>>))
            ELSE TallyPatternsUncounted(Tail(errors), items)

\* the error_patterns dict before sorting: <<pattern, count>> items in
\* first-seen order
RECURSIVE TallyPatterns(_, _)
TallyPatterns(errors, items) ==
    IF errors = <<>> THEN items
    ELSE LET pat == PatternOf(Head(errors))
             at == {i \in DOMAIN items : items[i][1] = pat}
         IN IF at = {}
            THEN TallyPatterns(Tail(errors), Append(items, <<pat, 1>>))
            ELSE LET i == CHOOSE j \in at : TRUE
                 IN TallyPatterns(Tail(errors),
                        [items EXCEPT ![i] = <<pat, items[i][2] + 1>>])

\* mutant of SortByCountDesc: sorted ascending and then reversed, so equal
\* counts come out in last-seen order
RECURSIVE SortByCountDescReversed(_)
SortByCountDescReversed(items) ==
    IF items = <<>> THEN <<>>
    ELSE LET i == CHOOSE k \in DOMAIN items :
                     /\ \A j \in DOMAIN items : items[j][2] <= items[k][2]
                     /\ \A j \in (k + 1)..Len(items) : items[j][2] < items[k][2]
         IN <<items[i]>> \o SortByCountDescReversed(RemoveAt(items, i))

\* sorted(items, key=count, reverse=True): stable, so equal counts keep their
\* first-seen order
RECURSIVE SortByCountDesc(_)
SortByCountDesc(items) ==
    IF items = <<>> THEN <<>>
    ELSE LET i == CHOOSE k \in DOMAIN items :
                     /\ \A j \in DOMAIN items : items[j][2] <= items[k][2]
                     /\ \A j \in 1..(k - 1) : items[j][2] < items[k][2]
         IN <<items[i]>> \o SortByCountDesc(RemoveAt(items, i))

Take(s, n) == SubSeq(s, 1, IF Len(s) < n THEN Len(s) ELSE n)

\* mutant of ErrorAnalysisOutcome: a session without records gets zero counts
\* instead of the error dict
ErrorAnalysisOutcomeZeroOnEmpty(preds, truth, times) ==
    IF NoPredictions(preds, truth)
    THEN Returned("analyze_errors",
            [total_errors    |-> 0,
             error_rate      |-> Zero,
             error_patterns  |-> <<>>,
             detailed_errors |-> <<>>])
    ELSE LET errors == ErrorsFrom(preds, truth, times, 1)
             sorted_patterns == SortByCountDesc(TallyPatterns(errors, <<>>))
         IN Returned("analyze_errors",
               [total_errors    |-> Len(errors),
                error_rate      |-> Frac(Len(errors), Len(preds)),
                error_patterns  |-> Take(sorted_patterns, TopPatterns),
                detailed_errors |-> Take(errors, DetailedErrorsCap)])

\* what analyze_errors gives its caller
ErrorAnalysisOutcome(preds, truth, times) ==
    IF NoPredictions(preds, truth)
    THEN Returned("analyze_errors", [error |-> "No predictions to analyze"])
    ELSE LET errors == ErrorsFrom(preds, truth, times, 1)
             sorted_patterns == SortByCountDesc(TallyPatterns(errors, <<>>))
         IN Returned("analyze_errors",
               [total_errors    |-> Len(errors),
                error_rate      |-> Frac(Len(errors), Len(preds)),
                error_patterns  |-> Take(sorted_patterns, TopPatterns),
                detailed_errors |-> Take(errors, DetailedErrorsCap)])

\* np.percentile(times, q): linear interpolation between the two nearest ranks
Percentile(times, q) ==
    LET s == SortNums(times)
        n == Len(s)
        pos == Frac((n - 1) * q, 100)
        lo == pos[1] \div pos[2]
        hi == IF lo + 1 < n THEN lo + 1 ELSE n - 1
        part == Frac(pos[1] - lo * pos[2], pos[2])
    IN RAdd(RInt(s[lo + 1]), RMul(RInt(s[hi + 1] - s[lo + 1]), part))

\* np.std(times) is the square root of this population variance
Variance(times) ==
    LET n == Len(times)
        sq == SumNums([i \in DOMAIN times |-> times[i] * times[i]])
        sm == SumNums(times)
    IN Frac(n * sq - sm * sm, n * n)

\* 1.0 / np.mean(times) if np.mean(times) > 0 else 0
Throughput(times) ==
    IF SumNums(times) > 0 THEN Frac(Len(times), SumNums(times)) ELSE Zero

\* accuracy_by_category: one entry per roster category that occurs as an
\* actual label, the share of its records that were predicted correctly
\* mutant of AccuracyByCategory: a roster category without records gets 0
AccuracyByCategoryAll(cats, preds, truth) ==
    [c \in Range(cats) |->
        IF Support(truth, c) > 0
        THEN Frac(TruePositives(truth, preds, c), Support(truth, c))
        ELSE Frac(0, 1)]

\* accuracy_by_category: for each roster category that some record has as its
\* actual label, accuracy_score over the records with that actual label

AccuracyByCategory(cats, preds, truth) ==
    [c \in {x \in Range(cats) : Support(truth, x) > 0} |->
        Frac(TruePositives(truth, preds, c), Support(truth, c))]

\* what performance_benchmarks gives its caller
BenchmarksOutcome(cats, preds, truth, times) ==
    LET by_category ==
            [accuracy_by_category |-> AccuracyByCategory(cats, preds, truth)]
    IN Returned("performance_benchmarks",
          IF times = <<>> THEN by_category
          ELSE [processing_time |->
                   [mean   |-> Frac(SumNums(times), Len(times)),
                    median |-> Median(times),
                    std    |-> [sqrt_of |-> Variance(times)],
                    p95    |-> Percentile(times, 95),
                    p99    |-> Percentile(times, 99),
                    throughput_per_second |-> Throughput(times)]]
               @@ by_category)

\* the text generate_classification_report renders: one row per roster
\* category (classification_report with labels=target_names=categories)
ClassificationReportOutcome(cats, preds, truth) ==
    IF NoPredictions(preds, truth)
    THEN Returned("generate_classification_report", "No predictions to evaluate")
    ELSE Returned("generate_classification_report",
            [rendered |-> PerClassMetrics(truth, preds, cats),
             names    |-> cats])

\* __init__: the state after construction, for a roster the caller supplies
InitEvaluator ==
    /\ categories \in Rosters
    /\ predictions = <<>>
    /\ ground_truth = <<>>
    /\ processing_times = <<>>
    /\ confidence_scores = <<>>
    /\ latency_args = <<>>
    /\ metrics_repeated = FALSE

add_prediction(predicted, actual, processing_time, confidence) ==
    /\ predictions' = Append(predictions, predicted)
    /\ ground_truth' = Append(ground_truth, actual)
    /\ processing_times' =
          IF Truthy(processing_time)
          THEN Append(processing_times, processing_time[1])
          ELSE processing_times
    /\ confidence_scores' =
          IF Truthy(confidence)
          THEN Append(confidence_scores, confidence[1])
          ELSE confidence_scores
    /\ result' = Returned("add_prediction", None)
    /\ latency_args' = Append(latency_args, processing_time)
    /\ metrics_repeated' = FALSE
    /\ UNCHANGED <<categories, report_file, gtVars, temp_files>>

\* mutant of calculate_metrics: the call consumes the recorded latencies
calculate_metrics_consuming(ts) ==
    /\ result' = MetricsOutcome(categories, predictions, ground_truth,
                                processing_times, ts)
    /\ metrics_repeated' = (result.op = "calculate_metrics")
    /\ processing_times' = <<>>
    /\ UNCHANGED <<categories, predictions, ground_truth, confidence_scores,
                   latency_args, report_file, gtVars, temp_files>>

calculate_metrics(ts) ==
    /\ result' = MetricsOutcome(categories, predictions, ground_truth,
                                processing_times, ts)
    /\ metrics_repeated' = (result.op = "calculate_metrics")
    /\ UNCHANGED <<evalVars, latency_args, report_file, gtVars, temp_files>>

analyze_errors ==
    /\ result' = ErrorAnalysisOutcome(predictions, ground_truth, processing_times)
    /\ metrics_repeated' = FALSE
    /\ UNCHANGED <<evalVars, latency_args, report_file, gtVars, temp_files>>

performance_benchmarks ==
    /\ result' = BenchmarksOutcome(categories, predictions, ground_truth,
                                   processing_times)
    /\ metrics_repeated' = FALSE
    /\ UNCHANGED <<evalVars, latency_args, report_file, gtVars, temp_files>>

----------------------------------------------------------------------------
(* Python dicts.  A dict is a sequence of <<key, value>> items with distinct *)
(* keys, in insertion order.                                                 *)

DictKeys(d) == {d[i][1] : i \in DOMAIN d}

\* d.get(k, default)
DictGet(d, k, default) ==
    IF k \in DictKeys(d)
    THEN d[CHOOSE i \in DOMAIN d : d[i][1] = k][2]
    ELSE default

\* mutant of DictSet: d.setdefault(k, v), an existing key keeps its value
DictSetDefault(d, k, v) ==
    IF k \in DictKeys(d) THEN d ELSE Append(d, <<k, v>>)

\* d[k] = v: an existing key keeps its place and gets the new value
DictSet(d, k, v) ==
    IF k \in DictKeys(d)
    THEN [i \in DOMAIN d |-> IF d[i][1] = k THEN <<k, v>> ELSE d[i]]
    ELSE Append(d, <<k, v>>)

----------------------------------------------------------------------------
(* JSON.  A Python value is tagged with its type; json.dump turns it into a  *)
(* JSON value and json.load turns a JSON value into a Python value.          *)

PyStr(s) == [t |-> "str", v |-> s]

PyInt(n) == [t |-> "int", v |-> n]

PyFloat(x) == [t |-> "float", v |-> x]

PyNone == [t |-> "none"]

PyList(items) == [t |-> "list", v |-> items]

PyDict(items) == [t |-> "dict", v |-> items]

\* the text json writes for a dict key: a str key as it is, any other key
\* (a number, None) as the text of its JSON value
KeyText(k) == IF k.t = "str" THEN k.v ELSE <<"text of", k>>

\* the text json writes for a float: repr(), the shortest decimal text that
\* reads back as the same float
FloatText(x) == [reads_as |-> x]

\* json.dump: a dict becomes an object with text keys, a list an array
RECURSIVE JsonDump(_)
JsonDump(p) ==
    CASE p.t = "str"   -> [j |-> "string", v |-> p.v]
      [] p.t = "int"   -> [j |-> "integer", v |-> p.v]
      [] p.t = "float" -> [j |-> "real", v |-> FloatText(p.v)]
      [] p.t = "none"  -> [j |-> "null"]
      [] p.t = "list"  -> [j |-> "array",
                           v |-> [i \in DOMAIN p.v |-> JsonDump(p.v[i])]]
      [] p.t = "dict"  -> [j |-> "object",
                           v |-> [i \in DOMAIN p.v |->
                                    <<KeyText(p.v[i][1]), JsonDump(p.v[i][2])>>]]

\* json.load: an object becomes a dict with str keys (a repeated key keeps
\* its last value), an array a list
RECURSIVE JsonLoad(_)
RECURSIVE LoadItems(_, _)
LoadItems(members, d) ==
    IF members = <<>> THEN d
    ELSE LoadItems(Tail(members),
                   DictSet(d, PyStr(Head(members)[1]), JsonLoad(Head(members)[2])))

JsonLoad(j) ==
    CASE j.j = "string"  -> PyStr(j.v)
      [] j.j = "integer" -> PyInt(j.v)
      [] j.j = "real"    -> PyFloat(j.v.reads_as)
      [] j.j = "null"    -> PyNone
      [] j.j = "array"   -> PyList([i \in DOMAIN j.v |-> JsonLoad(j.v[i])])
      [] j.j = "object"  -> PyDict(LoadItems(j.v, <<>>))

----------------------------------------------------------------------------
(* Files.  A file is absent, or holds the chunks json.dump has written to it; *)
(* complete says whether the JSON text was written to its end.              *)

Absent == [exists |-> FALSE]

FileWith(chunks, complete) ==
    [exists |-> TRUE, text |-> chunks, complete |-> complete]

\* how a write can fail: not at all, in open(), or in json.dump after some
\* chunks have reached the file
NoFault == [at |-> "none", after |-> 0]

OpenFault == [at |-> "open", after |-> 0]

WriteFault(k) == [at |-> "write", after |-> k]

Faults(chunks) ==
    {NoFault, OpenFault} \cup {WriteFault(k) : k \in 0..(Len(chunks) - 1)}

\* the file after  with open(path, 'w') as f: json.dump(obj, f, indent=2)
\* open(path, 'w') truncates the file before anything is written
FileAfterDump(file, chunks, fault) ==
    CASE fault.at = "none"  -> FileWith(chunks, TRUE)
      [] fault.at = "open"  -> file
      [] fault.at = "write" -> FileWith(SubSeq(chunks, 1, fault.after), FALSE)

\* dict(items) for items that may repeat a key
RECURSIVE DictFromItems(_, _)
DictFromItems(items, d) ==
    IF items = <<>> THEN d
    ELSE DictFromItems(Tail(items), DictSet(d, Head(items)[1], Head(items)[2]))

\* a dict of floats, its keys in the order given
PyFloats(rec, keys) ==
    PyDict([i \in DOMAIN keys |-> <<PyStr(keys[i]), PyFloat(rec[keys[i]])>>])

PrfKeys == <<"precision", "recall", "f1_score">>

\* the dict calculate_metrics returns, as the Python value it is
PyMetrics(m, cats) ==
    IF "error" \in DOMAIN m
    THEN PyDict(<<<<PyStr("error"), PyStr(m.error)>>>>)
    ELSE PyDict(
       <<<<PyStr("timestamp"), PyStr(m.timestamp)>>,
         <<PyStr("total_samples"), PyInt(m.total_samples)>>,
         <<PyStr("accuracy"), PyFloat(m.accuracy)>>,
         <<PyStr("macro_metrics"), PyFloats(m.macro_metrics, PrfKeys)>>,
         <<PyStr("weighted_metrics"), PyFloats(m.weighted_metrics, PrfKeys)>>,
         <<PyStr("per_class_metrics"),
           PyDict(DictFromItems(
              [i \in DOMAIN cats |->
                 <<PyStr(cats[i]),
                   PyDict(PyFloats(m.per_class_metrics[cats[i]], PrfKeys).v
                          \o <<<<PyStr("support"),
                                 PyInt(m.per_class_metrics[cats[i]].support)>>>>)>>],
              <<>>))>>,
         <<PyStr("confusion_matrix"),
           PyList([i \in DOMAIN m.confusion_matrix |->
                     PyList([k \in DOMAIN m.confusion_matrix[i] |->
                               PyInt(m.confusion_matrix[i][k])])])>>,
         <<PyStr("performance"),
           IF "empty" \in DOMAIN m.performance THEN PyDict(<<>>)
           ELSE PyFloats(m.performance,
                         <<"avg_processing_time", "median_processing_time",
                           "min_processing_time", "max_processing_time">>)>>>>)

\* the dict analyze_errors returns, as the Python value it is
PyErrorAnalysis(e) ==
    IF "error" \in DOMAIN e
    THEN PyDict(<<<<PyStr("error"), PyStr(e.error)>>>>)
    ELSE PyDict(
       <<<<PyStr("total_errors"), PyInt(e.total_errors)>>,
         <<PyStr("error_rate"), PyFloat(e.error_rate)>>,
         <<PyStr("error_patterns"),
           PyDict([i \in DOMAIN e.error_patterns |->
                     <<PyStr(e.error_patterns[i][1]),
                       PyInt(e.error_patterns[i][2])>>])>>,
         <<PyStr("detailed_errors"),
           PyList([i \in DOMAIN e.detailed_errors |->
              LET d == e.detailed_errors[i]
              IN PyDict(<<<<PyStr("index"), PyInt(d.index)>>,
                          <<PyStr("predicted"), PyStr(d.predicted)>>,
                          <<PyStr("actual"), PyStr(d.actual)>>,
                          <<PyStr("processing_time"),
                            IF d.processing_time = None THEN PyNone
                            ELSE PyFloat(d.processing_time[1])>>>>)])>>>>)

\* the dict performance_benchmarks returns, as the Python value it is
PyBenchmarks(b, cats) ==
    LET Measured(c) == c \in DOMAIN b.accuracy_by_category
        measured == SelectSeq(cats, Measured)
    IN PyDict(
         (IF "processing_time" \in DOMAIN b
          THEN <<<<PyStr("processing_time"),
                   PyFloats(b.processing_time,
                            <<"mean", "median", "std", "p95", "p99",
                              "throughput_per_second">>)>>>>
          ELSE <<>>)
         \o <<<<PyStr("accuracy_by_category"),
                PyDict(DictFromItems(
                   [i \in DOMAIN measured |->
                      <<PyStr(measured[i]),
                        PyFloat(b.accuracy_by_category[measured[i]])>>],
                   <<>>))>>>>)

\* the report dict of save_evaluation_report, as the Python value it is
PyReport(report) ==
    LET meta == report.evaluation_metadata
    IN PyDict(
       <<<<PyStr("evaluation_metadata"),
           PyDict(<<<<PyStr("timestamp"), PyStr(meta.timestamp)>>,
                    <<PyStr("total_predictions"), PyInt(meta.total_predictions)>>,
                    <<PyStr("categories"),
                      PyList([i \in DOMAIN meta.categories |->
                                PyStr(meta.categories[i])])>>>>)>>,
         <<PyStr("metrics"), PyMetrics(report.metrics, meta.categories)>>,
         <<PyStr("error_analysis"), PyErrorAnalysis(report.error_analysis)>>,
         <<PyStr("performance_benchmarks"),
           PyBenchmarks(report.performance_benchmarks, meta.categories)>>,
         <<PyStr("classification_report"),
           PyStr(report.classification_report)>>>>)

\* json.dump of the report dict: one chunk per top-level key, in insertion
\* order, each the key's text and the JSON value written for it
ReportChunks(report) == JsonDump(PyReport(report)).v

\* json.load of a report file that was written to its end
LoadReport(file) == JsonLoad([j |-> "object", v |-> file.text])

\* the report dict save_evaluation_report builds before it opens the file
BuildReport(cats, preds, truth, times, ts1, ts2) ==
    [evaluation_metadata |->
        [timestamp |-> ts1, total_predictions |-> Len(preds), categories |-> cats],
     metrics |-> MetricsOutcome(cats, preds, truth, times, ts2).value,
     error_analysis |-> ErrorAnalysisOutcome(preds, truth, times).value,
     performance_benchmarks |-> BenchmarksOutcome(cats, preds, truth, times).value,
     classification_report |-> ClassificationReportOutcome(cats, preds, truth).value]

save_evaluation_report(ts1, ts2) ==
    LET m == MetricsOutcome(categories, predictions, ground_truth,
                            processing_times, ts2)
    IN /\ IF m.kind = "raised"
          THEN /\ result' = Raised("save_evaluation_report", m.exc)
               /\ report_file' = report_file
          ELSE LET report == BuildReport(categories, predictions, ground_truth,
                                         processing_times, ts1, ts2)
                   chunks == ReportChunks(report)
               IN \E fault \in Faults(chunks) :
                     /\ report_file' = FileAfterDump(report_file, chunks, fault)
                     /\ result' = IF fault = NoFault
                                  THEN Returned("save_evaluation_report", report)
                                  ELSE Raised("save_evaluation_report", "OSError")
       /\ metrics_repeated' = FALSE
       /\ UNCHANGED <<evalVars, latency_args, gtVars, temp_files>>

----------------------------------------------------------------------------
(* GroundTruthManager *)

EmptyInfo == "{}"

\* document_info or {}
InfoOrEmpty(document_info) ==
    IF document_info = None THEN EmptyInfo ELSE document_info[1]

\* json.dump of the mapping: for each item its key and the three fields of its
\* entry, in insertion order
RECURSIVE GroundTruthChunks(_)
GroundTruthChunks(d) ==
    IF d = <<>> THEN <<>>
    ELSE <<<<"key", Head(d)[1]>>,
           <<"category", Head(d)[2].category>>,
           <<"timestamp", Head(d)[2].timestamp>>,
           <<"document_info", Head(d)[2].document_info>>>>
         \o GroundTruthChunks(Tail(d))

ChunksPerEntry == 4

\* the chunks json.dump writes before it raises TypeError on a value it cannot
\* serialize; Len(chunks) when it can serialize everything
SerializableUpTo(chunks) ==
    LET bad == {i \in DOMAIN chunks : chunks[i][2] = "unserializable"}
    IN IF bad = {} THEN Len(chunks)
       ELSE (CHOOSE i \in bad : \A j \in bad : i <= j) - 1

\* json.load of a complete text: items are rebuilt chunk by chunk, a repeated
\* key replacing the earlier item
RECURSIVE ParseGroundTruth(_, _)
ParseGroundTruth(chunks, d) ==
    IF chunks = <<>> THEN d
    ELSE ParseGroundTruth(
            SubSeq(chunks, ChunksPerEntry + 1, Len(chunks)),
            DictSet(d, chunks[1][2],
                    [category |-> chunks[2][2],
                     timestamp |-> chunks[3][2],
                     document_info |-> chunks[4][2]]))

\* mutant of load_ground_truth: the file is opened without asking whether it
\* exists
load_ground_truth_unguarded(file) ==
    IF ~file.exists THEN Raised("load_ground_truth", "FileNotFoundError")
    ELSE IF ~file.complete THEN Raised("load_ground_truth", "JSONDecodeError")
    ELSE Returned("load_ground_truth", ParseGroundTruth(file.text, <<>>))

\* what load_ground_truth gives: {} for a missing file, the parsed mapping, or
\* JSONDecodeError for a text that was not written to its end
load_ground_truth(file) ==
    IF ~file.exists THEN Returned("load_ground_truth", <<>>)
    ELSE IF ~file.complete THEN Raised("load_ground_truth", "JSONDecodeError")
    ELSE Returned("load_ground_truth", ParseGroundTruth(file.text, <<>>))

\* mutant of SaveOutcome: the file is opened in append mode, so the new dump
\* follows the text that was there
SaveOutcomeAppending(file, d, fault) ==
    LET chunks == GroundTruthChunks(d)
        old == IF file.exists THEN file.text ELSE <<>>
    IN IF fault.at = "none"
       THEN [file |-> FileWith(old \o chunks, old = <<>>), exc |-> None]
       ELSE [file |-> file, exc |-> Some("OSError")]

\* mutant of SaveOutcome: the mapping is merged into what the file holds
\* before it is written (read-modify-write)
SaveOutcomeMerging(file, d, fault) ==
    LET old == IF file.exists /\ file.complete THEN file.text ELSE <<>>
    IN IF fault.at = "none"
       THEN [file |-> FileWith(
                         GroundTruthChunks(
                             ParseGroundTruth(GroundTruthChunks(d),
                                              ParseGroundTruth(old, <<>>))),
                         TRUE),
             exc |-> None]
       ELSE [file |-> file, exc |-> Some("OSError")]

\* the file after save_ground_truth, and the error it raises (None: no error)
SaveOutcome(file, d, fault) ==
    LET chunks == GroundTruthChunks(d)
        ok == SerializableUpTo(chunks)
    IN IF fault.at = "open" THEN [file |-> file, exc |-> Some("OSError")]
       ELSE IF fault.at = "write" /\ fault.after <= ok
       THEN [file |-> FileWith(SubSeq(chunks, 1, fault.after), FALSE),
             exc |-> Some("OSError")]
       ELSE IF ok < Len(chunks)
       THEN [file |-> FileWith(SubSeq(chunks, 1, ok), FALSE),
             exc |-> Some("TypeError")]
       ELSE [file |-> FileWith(chunks, TRUE), exc |-> None]

\* mutant of GetOutcome: self.ground_truth[document_id]["category"]
GetOutcomeIndexing(d, document_id) ==
    IF document_id \in DictKeys(d)
    THEN Returned("get_ground_truth", Some(DictGet(d, document_id, None).category))
    ELSE Raised("get_ground_truth", "KeyError")

\* self.ground_truth.get(document_id, {}).get("category")
GetOutcome(d, document_id) ==
    LET entry == DictGet(d, document_id, [empty |-> TRUE])
    IN Returned("get_ground_truth",
           IF "category" \in DOMAIN entry THEN Some(entry.category) ELSE None)

\* mutant of CountCategories: a category seen again is not counted again
RECURSIVE CountCategoriesOnce(_, _)
CountCategoriesOnce(items, counts) ==
    IF items = <<>> THEN counts
    ELSE CountCategoriesOnce(Tail(items),
                             DictSet(counts, Head(items)[2].category, 1))

\* category_counts[category] = category_counts.get(category, 0) + 1, for the
\* items of the mapping in order
RECURSIVE CountCategories(_, _)
CountCategories(items, counts) ==
    IF items = <<>> THEN counts
    ELSE LET category == Head(items)[2].category
         IN CountCategories(Tail(items),
               DictSet(counts, category, DictGet(counts, category, 0) + 1))

\* what create_test_dataset gives its caller
TestDatasetOutcome(d, ts) ==
    Returned("create_test_dataset",
        [metadata |-> [created |-> ts,
                       total_documents |-> Len(d),
                       categories |-> CountCategories(d, <<>>)],
         documents |-> [i \in DOMAIN d |->
                          [document_id   |-> d[i][1],
                           true_category |-> d[i][2].category,
                           timestamp     |-> d[i][2].timestamp,
                           document_info |-> d[i][2].document_info]]])

NoManager == [alive |-> FALSE, ground_truth |-> <<>>]

InitGroundTruth ==
    /\ gt_file = Absent
    /\ managers = [s \in Sessions |-> NoManager]

\* GroundTruthManager(): session s binds a fresh manager loaded from the file;
\* when loading raises, no manager is made and the session keeps what it had
construct_manager(s) ==
    LET loaded == load_ground_truth(gt_file)
    IN /\ IF loaded.kind = "raised"
          THEN /\ managers' = managers
               /\ result' = Raised("__init__", loaded.exc) @@ [call |-> [session |-> s]]
          ELSE /\ managers' = [managers EXCEPT
                                 ![s] = [alive |-> TRUE, ground_truth |-> loaded.value]]
               /\ result' = Returned("__init__", None) @@ [call |-> [session |-> s]]
       /\ UNCHANGED <<evalVars, historyVars, report_file, gt_file, temp_files>>

add_ground_truth(s, document_id, true_category, document_info, ts, fault) ==
    /\ managers[s].alive
    /\ LET d == DictSet(managers[s].ground_truth, document_id,
                        [category |-> true_category,
                         timestamp |-> ts,
                         document_info |-> InfoOrEmpty(document_info)])
           saved == SaveOutcome(gt_file, d, fault)
           call == [session |-> s, document_id |-> document_id,
                    category |-> true_category]
       IN /\ fault.at = "write" => fault.after < Len(GroundTruthChunks(d))
          /\ managers' = [managers EXCEPT ![s].ground_truth = d]
          /\ gt_file' = saved.file
          /\ result' =
                IF saved.exc = None
                THEN [op |-> "add_ground_truth", kind |-> "returned",
                      value |-> None, call |-> call]
                ELSE [op |-> "add_ground_truth", kind |-> "raised",
                      exc |-> saved.exc[1], call |-> call]
    /\ UNCHANGED <<evalVars, historyVars, report_file, temp_files>>

get_ground_truth(s, document_id) ==
    /\ managers[s].alive
    /\ result' = GetOutcome(managers[s].ground_truth, document_id)
                     @@ [call |-> [session |-> s, document_id |-> document_id]]
    /\ UNCHANGED <<evalVars, historyVars, report_file, gtVars, temp_files>>

create_test_dataset(s, ts) ==
    /\ managers[s].alive
    /\ result' = TestDatasetOutcome(managers[s].ground_truth, ts)
                     @@ [call |-> [session |-> s]]
    /\ UNCHANGED <<evalVars, historyVars, report_file, gtVars, temp_files>>

----------------------------------------------------------------------------
(* The HTTP service (src/main.py) and the classifier it calls               *)
(* (src/doc_classifier.py).  A text (a file name, a request text, a parsed  *)
(* document) is the sequence of its characters.  The file names of the      *)
(* model hold no path separator.                                            *)

UpperCase ==
    <<"A", "B", "C", "D", "E", "F", "G", "H", "I", "J", "K", "L", "M">> \o
    <<"N", "O", "P", "Q", "R", "S", "T", "U", "V", "W", "X", "Y", "Z">>

LowerCase ==
    <<"a", "b", "c", "d", "e", "f", "g", "h", "i", "j", "k", "l", "m">> \o
    <<"n", "o", "p", "q", "r", "s", "t", "u", "v", "w", "x", "y", "z">>

\* str.lower()
lower(text) ==
    [i \in DOMAIN text |->
        IF \E k \in DOMAIN UpperCase : UpperCase[k] = text[i]
        THEN LowerCase[CHOOSE k \in DOMAIN UpperCase : UpperCase[k] = text[i]]
        ELSE text[i]]

Whitespace == {" ", "\t", "\n", "\r"}

\* str.strip(): the text without its leading and trailing whitespace
strip(text) ==
    LET inked == {i \in DOMAIN text : text[i] \notin Whitespace}
    IN IF inked = {} THEN <<>>
       ELSE SubSeq(text,
                   CHOOSE i \in inked : \A j \in inked : i <= j,
                   CHOOSE i \in inked : \A j \in inked : j <= i)

\* Path(filename).suffix: the name from its last dot on, unless that dot is
\* the first or the last character of the name
suffix(filename) ==
    LET dots == {i \in DOMAIN filename : filename[i] = "."}
    IN IF dots = {} THEN <<>>
       ELSE LET i == CHOOSE d \in dots : \A e \in dots : e <= d
            IN IF 1 < i /\ i < Len(filename)
               THEN SubSeq(filename, i, Len(filename))
               ELSE <<>>

SUPPORTED_FILE_TYPES ==
    <<<<"application/pdf",
        <<<<".", "p", "d", "f">>>>>>,
      <<"image/jpeg",
        <<<<".", "j", "p", "g">>, <<".", "j", "p", "e", "g">>>>>>,
      <<"image/png",
        <<<<".", "p", "n", "g">>>>>>,
      <<"image/tiff",
        <<<<".", "t", "i", "f", "f">>, <<".", "t", "i", "f">>>>>>,
      <<"text/plain",
        <<<<".", "t", "x", "t">>>>>>,
      <<"application/msword",
        <<<<".", "d", "o", "c">>>>>>,
      <<"application/vnd.openxmlformats-officedocument.wordprocessingml.document",
        <<<<".", "d", "o", "c", "x">>>>>>>>

\* mutant of validate_file_type: a content type the table does not know is
\* accepted without looking at the extension
validate_file_type_no_fallback(filename, content_type) ==
    LET file_ext == lower(suffix(filename))
    IN IF content_type \in DictKeys(SUPPORTED_FILE_TYPES)
       THEN file_ext \in Range(DictGet(SUPPORTED_FILE_TYPES, content_type, <<>>))
       ELSE TRUE

validate_file_type(filename, content_type) ==
    LET file_ext == lower(suffix(filename))
        supported_extensions ==
            UNION {Range(SUPPORTED_FILE_TYPES[i][2]) :
                      i \in DOMAIN SUPPORTED_FILE_TYPES}
    IN IF content_type \in DictKeys(SUPPORTED_FILE_TYPES)
       THEN file_ext \in Range(DictGet(SUPPORTED_FILE_TYPES, content_type, <<>>))
       ELSE file_ext \in supported_extensions

\* file_size <= max_size_mb * 1024 * 1024 with max_size_mb = 50
validate_file_size(file_size) == file_size <= 50 * 1024 * 1024

\* safe_cleanup(file_path): the files on disk after the call; os.unlink of a
\* file the service wrote itself is taken to succeed
safe_cleanup(files, file_path) ==
    IF file_path \in files THEN files \ {file_path} ELSE files

HTTPException(status_code, detail) ==
    [type |-> "HTTPException", status_code |-> status_code, detail |-> detail]

APIError(message, error_type) ==
    [type |-> "APIError", message |-> message, error_type |-> error_type]

JSONResponse(status_code, content) ==
    [status_code |-> status_code, content |-> content]

\* DocClassifier(*args): __init__ takes the document text and nothing else, so
\* a call with any other number of arguments raises TypeError
DocClassifier(args) ==
    IF Len(args) = 1
    THEN Returned("DocClassifier", [document_text |-> args[1]])
    ELSE Raised("DocClassifier", "TypeError")

\* classifier.classify_document(): three calls of the language model, for the
\* label, the summary and the extraction; llm says whether the model answers
\* and with which texts
classify_document(self, llm) ==
    IF llm.raises
    THEN Raised("classify_document", "LLMError")
    ELSE LET response == strip(llm.label)
         IN Returned("classify_document",
               [classification |-> response,
                summary        |-> Take(strip(llm.summary), 255),
                extracted_data |->
                    [document_type  |-> response,
                     extracted_info |-> strip(llm.extraction)]])

\* classifier = DocClassifier(text, industry); classifier.classify_document()
\* as both handlers write it; steps names the calls that were started
Classification(text, industry, llm) ==
    LET classifier == DocClassifier(<<text, industry>>)
    IN IF classifier.kind = "raised"
       THEN classifier @@ [steps |-> <<"DocClassifier">>]
       ELSE classify_document(classifier.value, llm)
               @@ [steps |-> <<"DocClassifier", "classify_document">>]

\* the results part of both handlers' 200 response
ResultsOf(classification_result) ==
    [classification |-> classification_result.classification,
     summary        |-> classification_result.summary,
     extracted_data |-> classification_result.extracted_data]

\* what POST /classify gives its caller: the try block, then the handler's
\* except Exception clause, which takes whatever the try block raised
ClassifyTextOutcome(text, industry, llm) ==
    LET body ==
            IF strip(text) = <<>>
            THEN Raised("classify_text",
                        HTTPException(400, "Text content cannot be empty"))
                    @@ [steps |-> <<>>]
            ELSE LET result_ == Classification(text, industry, llm)
                 IN IF result_.kind = "raised"
                    THEN Raised("classify_text",
                                [type |-> result_.exc]) @@ [steps |-> result_.steps]
                    ELSE Returned("classify_text",
                            JSONResponse(200,
                               [status     |-> "success",
                                processing |-> [text_length |-> Len(text)],
                                results    |-> ResultsOf(result_.value)]))
                            @@ [steps |-> result_.steps]
    IN IF body.kind = "raised"
       THEN Raised("classify_text",
                   HTTPException(500, [error |-> "Error classifying text",
                                       cause |-> body.exc]))
               @@ [steps |-> body.steps]
       ELSE body

classify_text(text, industry, llm) ==
    /\ result' = ClassifyTextOutcome(text, industry, llm)
                    @@ [call |-> [text |-> text, industry |-> industry,
                                  llm |-> llm]]
    /\ metrics_repeated' = FALSE
    /\ UNCHANGED <<evalVars, latency_args, report_file, gtVars, temp_files>>

\* the block "with tempfile.NamedTemporaryFile(delete=False, ...) as temp_file:
\* temp_file.write(file_content); temp_file_path = temp_file.name" for a file
\* system that lets it through ("ok"), refuses to create the file, fails the
\* write (the file exists, the path was not assigned yet) or fails the close
\* on leaving the block (the file exists and the path was assigned)
SaveTempFile(files, name, temp) ==
    [raised         |-> temp # "ok",
     files          |-> IF temp = "create_fails" THEN files
                        ELSE files \cup {name},
     created        |-> IF temp = "create_fails" THEN None ELSE Some(name),
     temp_file_path |-> IF temp \in {"ok", "close_fails"} THEN Some(name)
                        ELSE None]

NoTempFile(files) ==
    [raised |-> FALSE, files |-> files, created |-> None,
     temp_file_path |-> None]

\* documents[0].text if documents else ""
ExtractedText(documents) ==
    IF documents # <<>> THEN documents[1].text ELSE <<>>

\* mutant of StatusFor: only validation errors are the client's
StatusForValidationOnly(error_type) ==
    IF error_type \in {"validation"} THEN 400 ELSE 500

\* status_code = 400 if e.error_type in ["validation", "extraction_failed"]
\* else 500
StatusFor(error_type) ==
    IF error_type \in {"validation", "extraction_failed"} THEN 400 ELSE 500

\* the except clauses of POST /upload-and-classify
RespondTo(exc) ==
    IF exc.type = "APIError"
    THEN HTTPException(StatusFor(exc.error_type),
                       [error |-> exc.message, error_type |-> exc.error_type])
    ELSE IF exc.type = "HTTPException"
    THEN exc
    ELSE HTTPException(500,
            [error |-> "Internal server error during document processing",
             error_type |-> "unexpected_error"])

\* what POST /upload-and-classify gives its caller, and the temporary files
\* it leaves on disk; name is the name a temporary file of this request gets;
\* request holds the upload (filename, content_type, industry) and what the
\* handler meets on its way: read (file.read() raises, or the size of the
\* content), temp (see SaveTempFile), parse (LlamaParse raises, or the
\* documents it returns) and llm (see classify_document)
UploadAndClassifyOutcome(files, name, request) ==
    LET filename == request.filename
        content_type == request.content_type
        industry == request.industry
        read == request.read
        parse == request.parse
        llm == request.llm
        Failed(exc, steps, saved, guarded) ==
            [kind |-> "raised", exc |-> exc, steps |-> steps,
             saved |-> saved, guarded |-> guarded]
        body ==
            IF strip(filename) = <<>>
            THEN Failed(APIError("Invalid filename", "validation"),
                        <<>>, NoTempFile(files), FALSE)
            ELSE IF ~validate_file_type(filename, content_type)
            THEN Failed(APIError("Unsupported file type", "validation"),
                        <<>>, NoTempFile(files), FALSE)
            ELSE IF read.raises
            THEN Failed(APIError("Failed to read file content", "file_read"),
                        <<"read">>, NoTempFile(files), FALSE)
            ELSE IF ~validate_file_size(read.size)
            THEN Failed(APIError("File too large", "validation"),
                        <<"read">>, NoTempFile(files), FALSE)
            ELSE IF read.size = 0
            THEN Failed(APIError("Empty file uploaded", "validation"),
                        <<"read">>, NoTempFile(files), FALSE)
            ELSE
            LET saved == SaveTempFile(files, name, request.temp)
            IN IF saved.raised
               THEN Failed(APIError("Failed to create temporary file",
                                    "temp_file_creation"),
                           <<"read", "temp_file">>, saved, FALSE)
               ELSE IF parse.raises
               THEN Failed(APIError("Document parsing failed",
                                    "llamaparse_error"),
                           <<"read", "temp_file", "parse">>, saved, TRUE)
               ELSE
               LET extracted_text == ExtractedText(parse.documents)
               IN IF strip(extracted_text) = <<>>
                  THEN Failed(APIError("No text could be extracted from the document",
                                       "extraction_failed"),
                              <<"read", "temp_file", "parse">>, saved, TRUE)
                  ELSE
                  LET classification_result ==
                          Classification(extracted_text, industry, llm)
                      steps == <<"read", "temp_file", "parse">>
                                  \o classification_result.steps
                  IN IF classification_result.kind = "raised"
                     THEN Failed(APIError("Document classification failed",
                                          "classification_error"),
                                 steps, saved, TRUE)
                     ELSE [kind  |-> "returned",
                           value |-> JSONResponse(200,
                              [status    |-> "success",
                               file_info |-> [filename |-> filename,
                                              content_type |-> content_type,
                                              file_size |-> read.size],
                               processing |-> [text_length |-> Len(extracted_text)],
                               results   |-> ResultsOf(classification_result.value)]),
                           steps |-> steps, saved |-> saved, guarded |-> TRUE]
        path == body.saved.temp_file_path
        \* finally: if temp_file_path: safe_cleanup(temp_file_path)
        after_finally ==
            IF body.guarded /\ path # None
            THEN safe_cleanup(body.saved.files, path[1])
            ELSE body.saved.files
        \* except ...: if temp_file_path: safe_cleanup(temp_file_path)
        after_except ==
            IF body.kind = "raised" /\ path # None
            THEN safe_cleanup(after_finally, path[1])
            ELSE after_finally
    IN [response |->
            (IF body.kind = "raised"
             THEN Raised("upload_and_classify_document", RespondTo(body.exc))
             ELSE Returned("upload_and_classify_document", body.value))
            @@ [steps |-> body.steps, created |-> body.saved.created],
        files |-> after_except]

upload_and_classify_document(name, request) ==
    LET outcome == UploadAndClassifyOutcome(temp_files, name, request)
    IN /\ name \notin temp_files
       /\ temp_files' = outcome.files
       /\ result' = outcome.response @@ [call |-> request]
       /\ metrics_repeated' = FALSE
       /\ UNCHANGED <<evalVars, latency_args, report_file, gtVars>>

\* what POST /upload gives its caller, and the temporary files it leaves on
\* disk: the try block, then the handler's except Exception clause
UploadOutcome(files, name, request) ==
    LET filename == request.filename
        Failed(exc, steps, left) ==
            [kind |-> "raised", exc |-> exc, steps |-> steps, files |-> left,
             created |-> IF "temp_file" \in Range(steps)
                            /\ request.temp # "create_fails"
                         THEN Some(name) ELSE None]
        body ==
            IF ~validate_file_type(filename, request.content_type)
            THEN Failed(HTTPException(400, "Unsupported file type"),
                        <<>>, files)
            ELSE IF request.read.raises
            THEN Failed([type |-> "Exception"], <<"read">>, files)
            ELSE
            LET saved == SaveTempFile(files, name, request.temp)
                \* finally: if os.path.exists(temp_file_path): os.unlink(...)
                after_finally == saved.files \ {name}
            IN IF saved.raised
               THEN Failed([type |-> "OSError"], <<"read", "temp_file">>,
                           saved.files)
               ELSE IF request.parse.raises
               THEN Failed([type |-> "Exception"],
                           <<"read", "temp_file", "parse">>, after_finally)
               ELSE
               LET extracted_text == ExtractedText(request.parse.documents)
               IN [kind  |-> "returned",
                   value |-> JSONResponse(200,
                      [status     |-> "success",
                       file_info  |-> [filename |-> filename,
                                       content_type |-> request.content_type,
                                       file_size |-> request.read.size],
                       extraction |->
                          [text_length |-> Len(extracted_text),
                           extracted_text |->
                              IF Len(extracted_text) > 1000
                              THEN Take(extracted_text, 1000)
                                      \o <<".", ".", ".">>
                              ELSE extracted_text]]),
                   steps |-> <<"read", "temp_file", "parse">>,
                   files |-> after_finally, created |-> Some(name)]
    IN [response |->
            (IF body.kind = "raised"
             THEN Raised("upload_document",
                         HTTPException(500, [error |-> "Error processing file",
                                             cause |-> body.exc]))
             ELSE Returned("upload_document", body.value))
            @@ [steps |-> body.steps, created |-> body.created],
        files |-> body.files]

upload_document(name, request) ==
    LET outcome == UploadOutcome(temp_files, name, request)
    IN /\ name \notin temp_files
       /\ temp_files' = outcome.files
       /\ result' = outcome.response @@ [call |-> request]
       /\ metrics_repeated' = FALSE
       /\ UNCHANGED <<evalVars, latency_args, report_file, gtVars>>

----------------------------------------------------------------------------
(* Specification of an evaluation session *)

Init ==
    /\ InitEvaluator
    /\ report_file = Absent
    /\ temp_files = {}
    /\ InitGroundTruth
    /\ result = Returned("init", None)

Next ==
    \/ \E p \in Labels, a \in Labels, t \in TimeInputs, c \in ConfidenceInputs :
          /\ Len(predictions) < MaxRecords
          /\ add_prediction(p, a, t, c)
    \/ \E ts \in Timestamps : calculate_metrics(ts)

Spec == Init /\ [][Next]_vars

\* an evaluation session that writes reports
NextReport ==
    \/ \E r \in ReportInputs :
          /\ Len(predictions) < MaxReportRecords
          /\ add_prediction(r[1], r[2], r[3], None)
    \/ \E clock \in ReportClock : save_evaluation_report(clock[1], clock[2])

SpecReport == Init /\ [][NextReport]_vars

\* the ground-truth sessions start beside an evaluator of one fixed roster
InitGT == Init /\ categories = <<<<"A">>, <<"B">>>>

\* sessions that share the ground-truth file; writes may hit I/O errors
NextGT ==
    \/ \E s \in Sessions : construct_manager(s)
    \/ \E s \in Sessions, id \in DocIds, c \in TrueCategories,
          ts \in GTTimestamps, fault \in GTFaultInputs :
          add_ground_truth(s, id, c, None, ts, fault)
    \/ \E s \in Sessions, id \in DocIds : get_ground_truth(s, id)

SpecGT == InitGT /\ [][NextGT]_vars

\* one session whose callers pass document_info dicts, some of which json
\* cannot write
NextGTInfo ==
    \/ construct_manager("s1")
    \/ \E id \in DocIds, c \in TrueCategories, info \in InfoInputs,
          ts \in GTTimestamps :
          add_ground_truth("s1", id, c, info, ts, NoFault)
    \/ \E id \in DocIds : get_ground_truth("s1", id)
    \/ \E ts \in GTTimestamps : create_test_dataset("s1", ts)

SpecGTInfo == InitGT /\ [][NextGTInfo]_vars

\* a session whose errors and latencies are analysed: <<predicted, actual>>
\* pairs that are right or wrong in three ways, each with or without latency
MaxAnalysisRecords == 3

AnalysisPairs ==
    {<<<<"A">>, <<"A">>>>, <<<<"B">>, <<"A">>>>, <<<<"A">>, <<"B">>>>,
     <<<<"C">>, <<"A">>>>}

NextAnalysis ==
    \/ \E r \in AnalysisPairs, t \in LatencyInputs :
          /\ Len(predictions) < MaxAnalysisRecords
          /\ add_prediction(r[1], r[2], t, None)
    \/ analyze_errors
    \/ performance_benchmarks

SpecAnalysis == Init /\ [][NextAnalysis]_vars

\* a session of wrong predictions over four labels: each record is a
\* <<predicted, actual>> pair the session has not held before, or a repeat of
\* its first record
MaxPatternRecords == 12

PatternLabels == {<<"A">>, <<"B">>, <<"C">>, <<"D">>}

WrongPairs == {r \in PatternLabels \X PatternLabels : r[1] # r[2]}

RecordedPairs == {<<predictions[k], ground_truth[k]>> : k \in DOMAIN predictions}

PatternInputs ==
    (IF WrongPairs \ RecordedPairs = {} THEN {}
     ELSE {CHOOSE r \in WrongPairs \ RecordedPairs : TRUE})
    \cup (IF predictions = <<>> THEN {}
          ELSE {<<predictions[1], ground_truth[1]>>})

NextPatterns ==
    \/ \E r \in PatternInputs :
          /\ Len(predictions) < MaxPatternRecords
          /\ add_prediction(r[1], r[2], None, None)
    \/ analyze_errors

SpecPatterns == Init /\ [][NextPatterns]_vars

\* the session of five predictions over a roster of six categories; each
\* record may come with or without a latency
ScenarioRoster ==
    <<<<"Finance">>, <<"Legal">>, <<"HR">>, <<"Sales">>, <<"Product">>,
      <<"Other">>>>

ScenarioPredictions ==
    <<<<"Finance">>, <<"Legal">>, <<"HR">>, <<"Sales">>, <<"Other">>>>

ScenarioActuals ==
    <<<<"Finance">>, <<"Legal">>, <<"Finance">>, <<"Sales">>, <<"Product">>>>

InitScenario ==
    /\ categories = ScenarioRoster
    /\ predictions = <<>>
    /\ ground_truth = <<>>
    /\ processing_times = <<>>
    /\ confidence_scores = <<>>
    /\ latency_args = <<>>
    /\ metrics_repeated = FALSE
    /\ report_file = Absent
    /\ temp_files = {}
    /\ InitGroundTruth
    /\ result = Returned("init", None)

NextScenario ==
    \/ \E t \in LatencyInputs :
          /\ Len(predictions) < Len(ScenarioPredictions)
          /\ add_prediction(ScenarioPredictions[Len(predictions) + 1],
                            ScenarioActuals[Len(predictions) + 1], t, None)
    \/ \E ts \in Timestamps : calculate_metrics(ts)
    \/ analyze_errors

SpecScenario == InitScenario /\ [][NextScenario]_vars

\* an evaluator whose predictions and ground_truth lists were assigned by the
\* caller (they are plain public attributes), so their lengths may differ
MaxListLen == 2

ListLabels == {<<"A">>, <<"B">>}

AssignedLists == UNION {[1..n -> ListLabels] : n \in 0..MaxListLen}

InitLists ==
    /\ categories = <<<<"A">>, <<"B">>>>
    /\ predictions \in AssignedLists
    /\ ground_truth \in AssignedLists
    /\ processing_times = <<>>
    /\ confidence_scores = <<>>
    /\ latency_args = <<>>
    /\ metrics_repeated = FALSE
    /\ report_file = Absent
    /\ temp_files = {}
    /\ InitGroundTruth
    /\ result = Returned("init", None)

NextLists ==
    \/ \E ts \in Timestamps : calculate_metrics(ts)
    \/ analyze_errors

SpecLists == InitLists /\ [][NextLists]_vars

----------------------------------------------------------------------------
(* Claims about calculate_metrics *)

\* the HTTP service: requests arrive one after another; at most MaxTempFiles
\* temporary files fit on the disk
MaxTempFiles == 2

TempNames == 1..MaxTempFiles

FileNames ==
    {<<" ">>, <<"a", ".", "p", "d", "f">>, <<"a", ".", "P", "D", "F">>,
     <<"a", ".", "t", "x", "t">>, <<"a", ".", "x", "y", "z">>, <<".", "p", "d", "f">>}

ContentTypes == {"application/pdf", "application/unknown"}

Industries == {"general"}

ReadInputs ==
    {[raises |-> TRUE]}
    \cup {[raises |-> FALSE, size |-> n] :
             n \in {0, 50 * 1024 * 1024, 50 * 1024 * 1024 + 1}}

TempInputs == {"ok", "create_fails", "write_fails", "close_fails"}

ParseInputs ==
    {[raises |-> TRUE]}
    \cup {[raises |-> FALSE, documents |-> docs] :
             docs \in {<<>>, <<[text |-> <<" ", "\n">>]>>,
                       <<[text |-> <<"p", "a", "y">>]>>}}

LLMInputs ==
    {[raises |-> TRUE],
     [raises |-> FALSE, label |-> <<"H", "R", "\n">>,
      summary |-> <<"s">>, extraction |-> <<"x">>]}

TextInputs == {<<>>, <<" ", "\t">>, <<"p", "a", "y">>, <<" ", "p">>}

\* an upload that meets no obstacle on its way to the classifier
SmoothUpload ==
    [filename |-> <<"a", ".", "p", "d", "f">>,
     content_type |-> "application/pdf",
     read |-> [raises |-> FALSE, size |-> 50 * 1024 * 1024],
     temp |-> "ok",
     parse |-> [raises |-> FALSE, documents |-> <<[text |-> <<"p", "a", "y">>]>>]]

\* the uploads of the model: any file name and content type on a smooth way,
\* or the file of SmoothUpload on any way
UploadRequests ==
    {r \in [filename : FileNames, content_type : ContentTypes,
            read : ReadInputs, temp : TempInputs, parse : ParseInputs] :
        \/ /\ r.filename = SmoothUpload.filename
           /\ r.content_type = SmoothUpload.content_type
        \/ /\ r.read = SmoothUpload.read
           /\ r.temp = SmoothUpload.temp
           /\ r.parse = SmoothUpload.parse}

UploadAndClassifyRequests ==
    {r @@ [industry |-> industry, llm |-> llm] :
        r \in UploadRequests, industry \in Industries, llm \in LLMInputs}

InitHTTP == Init /\ categories = <<<<"A">>, <<"B">>>>

NextHTTP ==
    \/ \E text \in TextInputs, industry \in Industries, llm \in LLMInputs :
          classify_text(text, industry, llm)
    \/ \E name \in TempNames, request \in UploadRequests :
          upload_document(name, request)
    \/ \E name \in TempNames, request \in UploadAndClassifyRequests :
          upload_and_classify_document(name, request)

SpecHTTP == InitHTTP /\ [][NextHTTP]_vars

MetricsRequested == result.op = "calculate_metrics"

SnapshotReturned ==
    /\ MetricsRequested
    /\ result.kind = "returned"
    /\ "accuracy" \in DOMAIN result.value

MatrixSum(cm) ==
    SumNums([i \in DOMAIN cm |-> SumNums(cm[i])])

UnseenCategories ==
    Range(categories) \ PresentLabels(ground_truth, predictions)

\* C1: for every non-empty sequence of add_prediction calls, whatever label
\* strings were recorded, calculate_metrics returns a confusion matrix whose
\* cells sum to the number of recorded predictions.
C1_CellSumEqualsRecords ==
    (MetricsRequested /\ ~NoPredictions(predictions, ground_truth))
        => /\ SnapshotReturned
           /\ MatrixSum(result.value.confusion_matrix) = Len(predictions)

\* C2 as stated: requesting metrics with zero recorded predictions raises
\* EmptyInputError to the caller.
C2_EmptyRaisesEmptyInputError ==
    (MetricsRequested /\ predictions = <<>>)
        => /\ result.kind = "raised"
           /\ result.exc = "EmptyInputError"

\* C2 as amended: requesting metrics with zero recorded predictions raises
\* nothing; the call returns a dict whose only key is "error", which is not
\* snapshot-shaped.
C2_EmptyReturnsErrorDict ==
    (MetricsRequested /\ predictions = <<>>)
        => /\ result.kind = "returned"
           /\ DOMAIN result.value = {"error"}
           /\ ~SnapshotReturned

\* metrics were requested from an evaluator with no recorded prediction
C2_Witness == MetricsRequested /\ predictions = <<>> /\ result.kind = "returned"

\* C3: each macro value returned by calculate_metrics is the sum of the
\* per-class values over the roster divided by the roster's length, so a roster
\* category that never occurs contributes a 0 term.
C3_MacroIsMeanOverRoster ==
    SnapshotReturned =>
        LET v == result.value
            n == RInt(Len(categories))
            mean(field) ==
                RDiv0(RSum([i \in DOMAIN categories |->
                               v.per_class_metrics[categories[i]][field]]), n)
        IN /\ v.macro_metrics.precision = mean("precision")
           /\ v.macro_metrics.recall = mean("recall")
           /\ v.macro_metrics.f1_score = mean("f1_score")

\* C4: for a non-empty session, calculate_metrics does not raise and reports
\* precision = recall = f1_score = 0 and support = 0 for every roster category
\* that occurs neither as a prediction nor as an actual label.
C4_UnseenCategoryZero ==
    (MetricsRequested /\ ~NoPredictions(predictions, ground_truth))
        => \A c \in UnseenCategories :
              /\ SnapshotReturned
              /\ result.value.per_class_metrics[c] =
                    [precision |-> Zero, recall |-> Zero,
                     f1_score |-> Zero, support |-> 0]

----------------------------------------------------------------------------
(* Claims about save_evaluation_report *)

ReportWriteFailed ==
    /\ result.op = "save_evaluation_report"
    /\ result.kind = "raised"
    /\ result.exc = "OSError"

ReportSaved ==
    /\ result.op = "save_evaluation_report"
    /\ result.kind = "returned"

\* C7: when writing the evaluation report fails, the destination file keeps
\* its previous content (or stays absent): no empty or partially written
\* report file is left for a reader.
C7_FailedWriteLeavesReport ==
    [][ReportWriteFailed' => report_file' = report_file]_vars

----------------------------------------------------------------------------
(* Claims about GroundTruthManager *)

AddReturned ==
    /\ result.op = "add_ground_truth"
    /\ result.kind = "returned"

AddRaised ==
    /\ result.op = "add_ground_truth"
    /\ result.kind = "raised"

\* the mapping a manager constructed now on the same file would hold
FreshMapping == load_ground_truth(gt_file)

\* the category stored for id in mapping d, as a set: empty when id is absent
StoredCategories(d, id) == {d[i][2].category : i \in {j \in DOMAIN d : d[j][1] = id}}

\* C5: after add_ground_truth(id, c) has returned, a fresh GroundTruthManager
\* constructed on the same file returns c from get_ground_truth(id).
C5_AddThenFreshLoadGets ==
    AddReturned =>
        /\ FreshMapping.kind = "returned"
        /\ GetOutcome(FreshMapping.value, result.call.document_id).value
              = Some(result.call.category)

\* an add that returned after an earlier add of the same id with another
\* category and an add of another id
C5_Witness ==
    /\ AddReturned
    /\ Len(managers[result.call.session].ground_truth) = 2
    /\ managers[result.call.session].ground_truth[1][1] = result.call.document_id
    /\ result.call.category = "B"

\* C6: after every add_ground_truth that returned, the file holds exactly the
\* manager's in-memory mapping, which has one entry per document id, the
\* added id carrying the category just added.
C6_FileEqualsMappingAfterAdd ==
    AddReturned =>
        LET d == managers[result.call.session].ground_truth
        IN /\ gt_file.exists /\ gt_file.complete
           /\ ParseGroundTruth(gt_file.text, <<>>) = d
           /\ Len(gt_file.text) = ChunksPerEntry * Len(d)
           /\ Cardinality(DictKeys(d)) = Len(d)
           /\ StoredCategories(d, result.call.document_id) = {result.call.category}

\* an add that replaced the entry of an id that was already present
C6_Witness ==
    /\ AddReturned
    /\ Len(managers[result.call.session].ground_truth) = 2
    /\ managers[result.call.session].ground_truth[1][1] = result.call.document_id
    /\ Len(gt_file.text) = 2 * ChunksPerEntry

\* C8: when persisting fails during add_ground_truth, the error reaches the
\* caller and the ground-truth file is what it was before the call.
C8_FailedAddLeavesFile ==
    [][AddRaised' => gt_file' = gt_file]_vars

OtherSessions(s) == Sessions \ {s}

\* C9: after the last write, the file holds the full mapping of the session
\* that wrote it, and no id that only another session holds.
C9_LastWriterWins ==
    AddReturned =>
        LET w == result.call.session
            onFile == FreshMapping.value
        IN /\ FreshMapping.kind = "returned"
           /\ DictKeys(onFile) = DictKeys(managers[w].ground_truth)
           /\ \A id \in DictKeys(onFile) :
                 DictGet(onFile, id, None) = DictGet(managers[w].ground_truth, id, None)
           /\ \A o \in OtherSessions(w) :
                 \A id \in DictKeys(managers[o].ground_truth)
                              \ DictKeys(managers[w].ground_truth) :
                     id \notin DictKeys(onFile)

\* the last writer has overwritten an entry that only the other session holds
C9_Witness ==
    /\ AddReturned
    /\ \E o \in OtherSessions(result.call.session) :
          /\ managers[o].alive
          /\ DictKeys(managers[o].ground_truth)
                \ DictKeys(managers[result.call.session].ground_truth) # {}

GetRequested == result.op = "get_ground_truth"

\* C10: get_ground_truth(id) never raises: it returns the stored category when
\* id is in the mapping and None when it is not.
C10_GetNeverRaises ==
    GetRequested =>
        LET d == managers[result.call.session].ground_truth
            stored == StoredCategories(d, result.call.document_id)
        IN /\ result.kind = "returned"
           /\ stored = {} => result.value = None
           /\ stored # {} => result.value \in {Some(c) : c \in stored}

\* a lookup of an id that is not in the mapping
C10_Witness ==
    /\ GetRequested
    /\ result.kind = "returned"
    /\ result.call.document_id
          \notin DictKeys(managers[result.call.session].ground_truth)
    /\ managers[result.call.session].ground_truth # <<>>

ManagerConstructed == result.op = "__init__"

\* C11: constructing a GroundTruthManager while the ground-truth file does not
\* exist is not an error: the new manager holds an empty mapping, and the file
\* still does not exist afterwards.
C11_MissingFileLoadsEmpty ==
    [][(ManagerConstructed' /\ ~gt_file.exists) =>
          /\ result'.kind = "returned"
          /\ managers'[result'.call.session] =
                [alive |-> TRUE, ground_truth |-> <<>>]
          /\ gt_file' = Absent]_vars

\* a manager has just been constructed while the file is missing
C11_Witness ==
    /\ ManagerConstructed
    /\ result.kind = "returned"
    /\ ~gt_file.exists
    /\ managers[result.call.session].alive

----------------------------------------------------------------------------
(* Claims about repeated and mismatched requests *)

\* the values of a metrics result that do not depend on the clock
ClocklessValues(r) ==
    IF r.kind = "raised" THEN <<r.exc>>
    ELSE IF "accuracy" \notin DOMAIN r.value THEN <<r.value>>
    ELSE <<r.value.accuracy, r.value.per_class_metrics, r.value.macro_metrics,
           r.value.weighted_metrics, r.value.confusion_matrix>>

ErrorsRequested == result.op = "analyze_errors"

----------------------------------------------------------------------------
(* Claims about analyze_errors and performance_benchmarks *)

ErrorsAnalysed ==
    /\ ErrorsRequested
    /\ result.kind = "returned"
    /\ "detailed_errors" \in DOMAIN result.value

\* the positions (from 1) of the records whose prediction is wrong
Mismatches == {k \in DOMAIN predictions : predictions[k] # ground_truth[k]}

\* the position of the n-th wrong record
NthMismatch(n) ==
    CHOOSE k \in Mismatches : Cardinality({j \in Mismatches : j <= k}) = n

\* C14: detailed_errors holds the first 20 mismatches in record order, and
\* each entry carries the (0-based) index of its record, that record's labels
\* and the processing_time given in that record's add_prediction call (None
\* when none was given), whichever records were added with a latency.
C14_DetailedErrorsCarryOwnLatency ==
    ErrorsAnalysed =>
        LET detailed == result.value.detailed_errors
            shown == IF Cardinality(Mismatches) < DetailedErrorsCap
                     THEN Cardinality(Mismatches) ELSE DetailedErrorsCap
        IN /\ Len(detailed) = shown
           /\ \A n \in DOMAIN detailed :
                 LET k == NthMismatch(n)
                 IN detailed[n] = [index |-> k - 1,
                                   predicted |-> predictions[k],
                                   actual |-> ground_truth[k],
                                   processing_time |-> latency_args[k]]

\* the text of the pattern of the record at position k
RecordPattern(k) == ground_truth[k] \o Separator \o predictions[k]

\* the position of the first wrong record whose pattern is pat
FirstSeen(pat) ==
    CHOOSE k \in Mismatches :
        /\ RecordPattern(k) = pat
        /\ \A j \in Mismatches : RecordPattern(j) = pat => k <= j

\* C16: error_patterns is ordered by descending count, and patterns with the
\* same count are in the order in which they first occurred in the records.
C16_PatternsByCountThenFirstSeen ==
    ErrorsAnalysed =>
        LET items == result.value.error_patterns
        IN \A i \in DOMAIN items : \A j \in DOMAIN items :
              i < j =>
                 \/ items[i][2] > items[j][2]
                 \/ /\ items[i][2] = items[j][2]
                    /\ FirstSeen(items[i][1]) < FirstSeen(items[j][1])

\* the sort has reordered the patterns: the one listed first occurred more
\* often than the one listed second, and was first seen after it
C16_Witness ==
    /\ ErrorsAnalysed
    /\ Len(result.value.error_patterns) >= 2
    /\ LET items == result.value.error_patterns
       IN /\ items[1][2] > items[2][2]
          /\ FirstSeen(items[1][1]) > FirstSeen(items[2][1])

\* C17: analyze_errors on a session with at least one record reports
\* total_errors = the number of wrong records and error_rate = total_errors
\* divided by the number of records; on a session without records it raises
\* nothing and returns the dict {"error": "No predictions to analyze"}, which
\* holds no error_rate and no total_errors.
C17_ErrorRateOrErrorResult ==
    ErrorsRequested =>
        /\ result.kind = "returned"
        /\ IF predictions = <<>>
           THEN result.value = [error |-> "No predictions to analyze"]
           ELSE /\ ErrorsAnalysed
                /\ result.value.total_errors = Cardinality(Mismatches)
                /\ result.value.error_rate =
                      Frac(Cardinality(Mismatches), Len(predictions))

\* analyze_errors has answered for a session without records
C17_Witness ==
    /\ ErrorsRequested
    /\ predictions = <<>>
    /\ result.kind = "returned"

\* C17 as stated: error_rate is total_errors over the number of records, and
\* a session without records reports error_rate 0 and total_errors 0.
C17_EmptyHasZeroErrorRate ==
    ErrorsRequested =>
        /\ ErrorsAnalysed
        /\ result.value.total_errors = Cardinality(Mismatches)
        /\ result.value.error_rate =
              IF predictions = <<>> THEN Zero
              ELSE Frac(Cardinality(Mismatches), Len(predictions))

BenchmarksRequested == result.op = "performance_benchmarks"

\* the positions of the records that were added with a latency other than 0
TimedRecords ==
    {k \in DOMAIN latency_args :
        latency_args[k] # None /\ latency_args[k][1] # 0}

TimedTotal ==
    SumNums([k \in 1..Len(latency_args) |->
                IF k \in TimedRecords THEN latency_args[k][1] ELSE 0])

\* C18: when at least one record was added with a non-zero latency,
\* performance_benchmarks reports throughput_per_second = 1 / mean of the
\* non-zero latencies; when none was (no latency given, or only latencies of
\* 0, which add_prediction does not record) the result has no processing_time
\* section and so no throughput at all.
C18_ThroughputWhenRecorded ==
    BenchmarksRequested =>
        /\ result.kind = "returned"
        /\ IF TimedRecords = {}
           THEN "processing_time" \notin DOMAIN result.value
           ELSE /\ "processing_time" \in DOMAIN result.value
                /\ result.value.processing_time.throughput_per_second =
                      Frac(Cardinality(TimedRecords), TimedTotal)

\* benchmarks of a session whose every record was added with latency 0
C18_Witness ==
    /\ BenchmarksRequested
    /\ latency_args # <<>>
    /\ \A k \in DOMAIN latency_args : latency_args[k] = Some(0)

\* C18 as stated: throughput is 1 / mean of the recorded latencies, and a
\* throughput of 0 is reported when no latency was recorded.
C18_ThroughputZeroWithoutLatency ==
    BenchmarksRequested =>
        /\ result.kind = "returned"
        /\ "processing_time" \in DOMAIN result.value
        /\ result.value.processing_time.throughput_per_second =
              IF processing_times = <<>> \/ SumNums(processing_times) = 0
              THEN Zero
              ELSE Frac(Len(processing_times), SumNums(processing_times))

\* the pattern texts of the wrong records, and how often each occurs
PatternsSeen == {RecordPattern(k) : k \in Mismatches}

Occurrences(pat) == Cardinality({k \in Mismatches : RecordPattern(k) = pat})

ListedPatterns == {result.value.error_patterns[i][1] :
                      i \in DOMAIN result.value.error_patterns}

ListedTotal ==
    SumNums([i \in DOMAIN result.value.error_patterns |->
                result.value.error_patterns[i][2]])

\* C15: error_patterns lists the 10 most frequent pattern texts of the wrong
\* records (all of them when there are at most 10), each once and with its
\* number of occurrences; its counts sum to total_errors when at most 10
\* distinct patterns occur and to less than total_errors otherwise.
C15_TopPatternsCounted ==
    ErrorsAnalysed =>
        LET items == result.value.error_patterns
        IN /\ Len(items) = IF Cardinality(PatternsSeen) < TopPatterns
                           THEN Cardinality(PatternsSeen) ELSE TopPatterns
           /\ Cardinality(ListedPatterns) = Len(items)
           /\ \A i \in DOMAIN items :
                 /\ items[i][1] \in PatternsSeen
                 /\ items[i][2] = Occurrences(items[i][1])
           /\ \A pat \in PatternsSeen \ ListedPatterns :
                 \A i \in DOMAIN items : Occurrences(pat) <= items[i][2]
           /\ IF Cardinality(PatternsSeen) <= TopPatterns
              THEN ListedTotal = result.value.total_errors
              ELSE ListedTotal < result.value.total_errors

\* an analysis of a session with more than 10 distinct patterns, one of which
\* occurred more than once
C15_Witness ==
    /\ ErrorsAnalysed
    /\ Cardinality(PatternsSeen) > TopPatterns
    /\ result.value.error_patterns[1][2] > 1

\* C15 as stated: every distinct pattern of the session is listed, so the
\* counts sum to total_errors.
C15_PatternCountsSumToTotal ==
    ErrorsAnalysed =>
        /\ ListedPatterns = PatternsSeen
        /\ ListedTotal = result.value.total_errors

----------------------------------------------------------------------------
(* Claims about the five-prediction scenario and the confusion matrix *)

ScenarioRecorded ==
    predictions = ScenarioPredictions /\ ground_truth = ScenarioActuals

\* the key "actual->predicted" written with a single arrow character
ArrowKey(actual, predicted) == actual \o <<"rightwards-arrow">> \o predicted

DiagonalSum(cm) == SumNums([i \in DOMAIN cm |-> cm[i][i]])

\* C19: once the five scenario records are in, calculate_metrics reports
\* accuracy 3/5 and a confusion matrix with 3 counts on its diagonal, and
\* analyze_errors reports error_rate 2/5 and error_patterns with exactly the
\* keys "Finance->HR" and "Product->Other" (the arrow being one character),
\* each with count 1.
C19_ScenarioResults ==
    ScenarioRecorded =>
        /\ MetricsRequested =>
              /\ SnapshotReturned
              /\ result.value.accuracy = Frac(3, 5)
              /\ DiagonalSum(result.value.confusion_matrix) = 3
        /\ ErrorsRequested =>
              /\ ErrorsAnalysed
              /\ result.value.error_rate = Frac(2, 5)
              /\ Range(result.value.error_patterns) =
                    {<<ArrowKey(<<"Finance">>, <<"HR">>), 1>>,
                     <<ArrowKey(<<"Product">>, <<"Other">>), 1>>}

\* C20: in a snapshot, the cells of the confusion-matrix row of each roster
\* category sum to the support that per_class_metrics reports for it, the
\* number of records whose actual category it is.
C20_RowSumEqualsSupport ==
    SnapshotReturned =>
        \A i \in DOMAIN categories :
            /\ SumNums(result.value.confusion_matrix[i])
                  = result.value.per_class_metrics[categories[i]].support
            /\ result.value.per_class_metrics[categories[i]].support
                  = Cardinality({k \in DOMAIN ground_truth :
                                    ground_truth[k] = categories[i]})

----------------------------------------------------------------------------
(* Claims about the saved report and the test dataset *)

\* C21: for a session with at least one record, save_evaluation_report
\* (unless the write itself fails) returns the report and leaves a file
\* that json.load reads back as a value equal to the returned report, every
\* number and every string included.
C21_ReportRoundTrips ==
    (result.op = "save_evaluation_report"
        /\ predictions # <<>>
        /\ ~ReportWriteFailed)
    => /\ ReportSaved
       /\ report_file.exists
       /\ report_file.complete
       /\ LoadReport(report_file) = PyReport(result.value)

DatasetCreated == result.op = "create_test_dataset"

\* the entries of the manager's mapping that are labelled with category c
EntriesLabelled(d, c) == {i \in DOMAIN d : d[i][2].category = c}

\* C22: create_test_dataset lists one document per entry of the mapping, with
\* the entry's id and category; total_documents is the number of entries;
\* the per-category counts name exactly the categories in use, each with the
\* number of entries labelled with it, and so sum to total_documents.
C22_DatasetMatchesMapping ==
    DatasetCreated =>
        LET d == managers[result.call.session].ground_truth
            v == result.value
            counts == v.metadata.categories
        IN /\ result.kind = "returned"
           /\ v.metadata.total_documents = Len(d)
           /\ Len(v.documents) = Len(d)
           /\ Cardinality({v.documents[i].document_id : i \in DOMAIN v.documents})
                 = Len(d)
           /\ \A i \in DOMAIN v.documents :
                 <<v.documents[i].true_category>>
                    = GetOutcome(d, v.documents[i].document_id).value
           /\ DictKeys(counts) = {d[i][2].category : i \in DOMAIN d}
           /\ Cardinality(DictKeys(counts)) = Len(counts)
           /\ \A k \in DOMAIN counts :
                 counts[k][2] = Cardinality(EntriesLabelled(d, counts[k][1]))
           /\ SumNums([k \in DOMAIN counts |-> counts[k][2]])
                 = v.metadata.total_documents

\* a dataset of two documents that share a category
C22_Witness ==
    /\ DatasetCreated
    /\ Len(result.value.documents) = 2
    /\ Len(result.value.metadata.categories) = 1

----------------------------------------------------------------------------
(* Claims relating the results of different operations on one session *)

\* C26: for every non-empty session calculate_metrics reports an accuracy,
\* that accuracy and the error_rate of analyze_errors add up to 1, and
\* total_errors is total_samples minus the number of records whose predicted
\* label equals the actual one.
C26_AccuracyPlusErrorRate ==
    (MetricsRequested /\ predictions # <<>>)
    => /\ SnapshotReturned
       /\ LET analysis == ErrorAnalysisOutcome(predictions, ground_truth,
                                               processing_times).value
              matches == {k \in DOMAIN predictions :
                             predictions[k] = ground_truth[k]}
          IN /\ RAdd(result.value.accuracy, analysis.error_rate) = Frac(1, 1)
             /\ analysis.total_errors
                   = result.value.total_samples - Cardinality(matches)

\* C30: accuracy_by_category has an entry exactly for the roster categories
\* that are the actual label of some record, and each entry equals the recall
\* calculate_metrics reports for that category.
C30_AccuracyByCategoryIsRecall ==
    BenchmarksRequested =>
        LET by_category == result.value.accuracy_by_category
            metrics == MetricsOutcome(categories, predictions, ground_truth,
                                      processing_times, "t1")
        IN /\ DOMAIN by_category
                 = {c \in Range(categories) :
                       \E k \in DOMAIN ground_truth : ground_truth[k] = c}
           /\ \A c \in DOMAIN by_category :
                 /\ metrics.kind = "returned"
                 /\ by_category[c] = metrics.value.per_class_metrics[c].recall

\* benchmarks of a session in which a roster category has no record and
\* another is recalled for some of its records only
C30_Witness ==
    /\ BenchmarksRequested
    /\ DOMAIN result.value.accuracy_by_category # Range(categories)
    /\ \E c \in DOMAIN result.value.accuracy_by_category :
          result.value.accuracy_by_category[c] = Frac(1, 2)

----------------------------------------------------------------------------
(* Claims about the HTTP service *)

\* the status code the client sees
StatusOf(r) ==
    IF r.kind = "returned" THEN r.value.status_code ELSE r.exc.status_code

ClassifyRequested == result.op = "classify_text"

UploadRequested == result.op = "upload_document"

UploadAndClassifyRequested == result.op = "upload_and_classify_document"

ClassifierCalls == {"DocClassifier", "classify_document"}

\* C23: POST /classify with an empty or whitespace-only text is answered with
\* status 400, and the classifier is not invoked.
C23_BlankTextGets400 ==
    (ClassifyRequested /\ strip(result.call.text) = <<>>)
    => /\ StatusOf(result) = 400
       /\ Range(result.steps) \cap ClassifierCalls = {}

\* neither the content type nor the extension of the upload is a supported one
NothingSupported(call) ==
    /\ \A i \in DOMAIN SUPPORTED_FILE_TYPES :
          /\ SUPPORTED_FILE_TYPES[i][1] # call.content_type
          /\ lower(suffix(call.filename)) \notin Range(SUPPORTED_FILE_TYPES[i][2])

\* C24: POST /upload-and-classify with a file whose content type and
\* extension are both unsupported is answered with status 400, and neither
\* parsing nor classification is started.
C24_UnsupportedFileRejected ==
    (UploadAndClassifyRequested /\ NothingSupported(result.call))
    => /\ result.kind = "raised"
       /\ StatusOf(result) = 400
       /\ Range(result.steps) \cap ({"parse"} \cup ClassifierCalls) = {}
       /\ result.created = None

\* an upload named a.xyz of an unknown content type, which would otherwise
\* have gone through to the classifier, was rejected
C24_Witness ==
    /\ UploadAndClassifyRequested
    /\ NothingSupported(result.call)
    /\ strip(result.call.filename) # <<>>
    /\ result.call.read = SmoothUpload.read
    /\ result.call.parse = SmoothUpload.parse
    /\ StatusOf(result) = 400

\* C25: POST /classify with a text that is not blank, when the calls of the
\* language model succeed, is answered with status 200 and a results object
\* holding classification, summary and extracted_data.
C25_ClassifyTextSucceeds ==
    (ClassifyRequested
        /\ strip(result.call.text) # <<>>
        /\ ~result.call.llm.raises)
    => /\ result.kind = "returned"
       /\ StatusOf(result) = 200
       /\ DOMAIN result.value.content.results
             = {"classification", "summary", "extracted_data"}

\* C27: when POST /upload-and-classify created a temporary file, that file
\* is gone once the handler has returned or raised.
C27_TempFileRemoved ==
    (UploadAndClassifyRequested /\ result.created # None)
    => result.created[1] \notin temp_files

\* the first obstacle an upload meets in POST /upload-and-classify, "none"
\* when it meets none
UploadFailure(call) ==
    IF strip(call.filename) = <<>> THEN "invalid filename"
    ELSE IF ~validate_file_type(call.filename, call.content_type)
    THEN "unsupported type"
    ELSE IF call.read.raises THEN "file read"
    ELSE IF call.read.size > 50 * 1024 * 1024 THEN "too large"
    ELSE IF call.read.size = 0 THEN "empty file"
    ELSE IF call.temp # "ok" THEN "temp file"
    ELSE IF call.parse.raises THEN "parse"
    ELSE IF strip(ExtractedText(call.parse.documents)) = <<>> THEN "no text"
    ELSE IF Classification(ExtractedText(call.parse.documents),
                           call.industry, call.llm).kind = "raised"
    THEN "classification"
    ELSE "none"

ClientFailures ==
    {"invalid filename", "unsupported type", "too large", "empty file",
     "no text"}

\* C28: POST /upload-and-classify answers 400 exactly when the upload fails
\* validation (invalid filename, unsupported type, more than 50 MB, empty
\* file) or no text could be extracted; a failed read, temporary file, parse
\* or classification gives 500; no failure gives 200.
C28_StatusByFailure ==
    UploadAndClassifyRequested =>
        LET failure == UploadFailure(result.call)
        IN /\ (StatusOf(result) = 400) <=> (failure \in ClientFailures)
           /\ failure \notin ClientFailures \cup {"none"}
                 => StatusOf(result) = 500
           /\ failure # "none"
                 => result.kind = "raised" /\ StatusOf(result) # 200

\* a parsed document without text was answered with 400, after the
\* temporary file had been written and parsed
C28_Witness ==
    /\ UploadAndClassifyRequested
    /\ UploadFailure(result.call) = "no text"
    /\ StatusOf(result) = 400
    /\ result.steps = <<"read", "temp_file", "parse">>

\* C29: POST /upload with an unsupported file type is answered with the
\* status 400 that the handler raises for it.
C29_UnsupportedUploadGets400 ==
    (UploadRequested
        /\ ~validate_file_type(result.call.filename, result.call.content_type))
    => StatusOf(result) = 400

====
